---- MODULE Spec2Model ----
(***************************************************************************)
(* The ingestion pipeline of scripts/ai_watchdog.py: the watch loop        *)
(* (producer), the ingestion queue, the GPU worker (single consumer), the  *)
(* crash-recovery pass over the staging directory and the retroactive      *)
(* poller, together with the directories they move files between and the   *)
(* document backend they consult (modules/paperless_client.py).            *)
(*                                                                         *)
(* A payload is a document d \in Docs; a directory maps the file names     *)
(* present in it to the payload stored under that name, so that a move     *)
(* onto an existing name overwrites it, as shutil.move does.               *)
(***************************************************************************)
EXTENDS Naturals, Integers, Sequences, FiniteSets, TLC

\* ------------------------------------------------------------------ bounds
\* Payloads that may appear in the watch directory.
NDocs == 2
\* Largest number of rendered pages of one job.
MaxPages == 2
\* Largest number of process crashes (each followed by a restart).
MaxCrashes == 1
\* Largest number of results one similarity query returns.
MaxResults == 3

Docs == 1..NDocs

\* ------------------------------------------------------- the input universe
\* calculate_md5: the content hash of a payload.  Payloads 1 and 2 carry the
\* same bytes (the same document scanned twice), 3 and 4 likewise.
calculate_md5(d) == (d + 1) \div 2

\* input_file.name: the file name a payload arrives under.  Payloads 1 and 3
\* share a name, 2 and 4 likewise.
FileName(d) == ((d - 1) % 2) + 1

Uids == {calculate_md5(d) : d \in Docs}

\* ------------------------------------------------------------- directories
EmptyDir == [n \in {} |-> 0]

\* shutil.move(src, dst) seen from the target directory: dst is overwritten.
DirPut(dir, name, d) ==
    [n \in (DOMAIN dir) \cup {name} |-> IF n = name THEN d ELSE dir[n]]

\* unlink, or shutil.move seen from the source directory.
DirDel(dir, name) == [n \in (DOMAIN dir) \ {name} |-> dir[n]]

DirDocs(dir) == {dir[n] : n \in DOMAIN dir}

\* Names in the intake directory (CONSUME_DIR).
OrigName(d) == <<"orig", FileName(d)>>
StagedName(u) == <<"uid", u>>
RecoveredName(u) == <<"recovered", u>>

\* Working directories under /volume1/temp.
WatchWorkDir(d) == <<"watch_work", FileName(d)>>
RecoveryWorkDir(u) == <<"recovery", u>>
RetroWorkDir(u) == <<"retro", u>>

\* The payload a retroactive download writes into staging: a copy of the
\* archived document with checksum u.
RetroCopy(u) == NDocs + u

\* The content hash of any payload, a retroactive copy included.
ContentOf(p) == IF p \in Docs THEN calculate_md5(p) ELSE p - NDocs

\* ----------------------------------------------------------- sidecar names
\* Worker, line 339: MD_BUFFER_DIR / f"{uid}.json", uid being the MD5
\* hexdigest (32 hex digits) of the payload.
sidecar_json(uid) == <<"md5", uid>>

\* ai_post_consume.main, lines 161-168: uid is the SHA-256 hexdigest (64 hex
\* digits) of the consumed original.
sha256(d) == <<"sha256", ContentOf(d)>>

\* Lines 185-188: <uid>.json when the source path exists, else
\* <original_filename>.json.
sidecar_path(d, original_filename, source_exists) ==
    IF source_exists THEN sha256(d) ELSE <<"name", original_filename>>

\* The names a payload can carry in the intake directory.
IntakeNames(d) ==
    {OrigName(d), StagedName(calculate_md5(d)), RecoveredName(calculate_md5(d))}

\* Every file name the worker writes or the post-consume script looks up.
SidecarKeys ==
    {sidecar_json(u) : u \in Uids}
    \cup UNION {{sidecar_path(d, n, x) : n \in IntakeNames(d), x \in BOOLEAN} :
                d \in Docs}

VARIABLES
    watch,          \* payloads in WATCH_DIR (*.pdf)
    staging,        \* STAGING_DIR: uid |-> payload stored as <uid>.pdf
    intake,         \* CONSUME_DIR: name |-> payload
    duplicates,     \* payloads in WATCH_DIR/duplicates
    error_dir,      \* WATCH_DIR/error: file name |-> payload
    work_dirs,      \* job working directories that exist
    sidecars,       \* names of the *.json files in MD_BUFFER_DIR
    consumed,       \* names of the sidecars the post-consume script has read
    unfinished_tasks, \* ocr_queue.unfinished_tasks
    gpu_busy_flag,  \* GPU_BUSY_FLAG exists
    ocr_queue,      \* the queue.Queue of jobs
    inflight,       \* the jobs the worker has taken and not finished
    w_last,         \* how the worker's last finished iteration ended
    main_pc,        \* position of main(): boot, recover_scan, recover, watch
    threads,        \* gpu_worker / ai_retagger threads started by this run
    staged_pdfs,    \* recovery: staged files still to visit
    rec_client,     \* recovery: client is not None
    rec_last,       \* recovery: what the last visit saw and did
    archive,        \* backend: checksum |-> none / ok / zombie
    picked_up,      \* payloads the backend took from intake
    arrived,        \* payloads that have appeared in the watch directory
    unlinked,       \* <<payload, record state>> of every staged file recovery unlinked
    crashes,        \* crashes so far
    enq_count,      \* jobs put on the queue by this run
    last_started,   \* enqueue number of the job the worker took last
    call,           \* the LLMClient call a client process is in
    dd,             \* the DuplicateDetector.process run of the post-consume script
    tags,           \* backend: document id |-> the names of its tags
    notes,          \* backend: document id |-> the notes added to it, in order
    poller          \* position of ai_retagger in its loop

vars == <<watch, staging, intake, duplicates, error_dir, work_dirs, sidecars,
          gpu_busy_flag, ocr_queue, inflight, w_last, main_pc, threads,
          staged_pdfs, rec_client, rec_last, archive, picked_up, arrived,
          unlinked, crashes, enq_count, last_started, consumed,
          unfinished_tasks, call, dd, tags, notes, poller>>

fs_vars == <<watch, staging, intake, duplicates, error_dir, work_dirs, sidecars,
             consumed>>
worker_vars == <<inflight, w_last, last_started>>
rec_vars == <<staged_pdfs, rec_client, rec_last>>
backend_vars == <<archive, picked_up>>
annot_vars == <<tags, notes>>
client_vars == <<call, dd, annot_vars, poller>>

NoVisit == [uid |-> 0, duplicate |-> "none", outcome |-> "none"]

\* No request has been sent by the call yet.
NoRequest == [host |-> "none", model |-> "none", flag |-> FALSE]

\* No inference call is in progress; no duplicate-detection run has started.
NoCall == [status |-> "none", kind |-> "none", images |-> FALSE, attempt |-> 0,
           waits |-> <<>>, sent |-> NoRequest, result |-> ""]
NoRun == [status |-> "none"]

\* The documents of the backend: the archived payloads (a record is known by
\* its checksum) and the documents a similarity query can return.
DocIds == Uids \cup 1..(MaxResults + 1)

\* No document carries a tag or a note.
NoTags == [i \in DocIds |-> {}]
NoNotes == [i \in DocIds |-> <<>>]

\* ai_retagger at the top of its loop (line 497).
Polling == [pc |-> "poll", doc |-> 0]

Init ==
    /\ watch = {}
    /\ staging = EmptyDir
    /\ intake = EmptyDir
    /\ duplicates = {}
    /\ error_dir = EmptyDir
    /\ work_dirs = {}
    /\ sidecars = {}
    /\ gpu_busy_flag = FALSE
    /\ ocr_queue = <<>>
    /\ inflight = <<>>
    /\ w_last = "none"
    /\ main_pc = "boot"
    /\ threads = 0
    /\ staged_pdfs = {}
    /\ rec_client = FALSE
    /\ rec_last = NoVisit
    /\ archive = [u \in Uids |-> "none"]
    /\ picked_up = {}
    /\ arrived = {}
    /\ unlinked = {}
    /\ crashes = 0
    /\ enq_count = 0
    /\ last_started = 0
    /\ consumed = {}
    /\ unfinished_tasks = 0
    /\ call = NoCall
    /\ tags = NoTags
    /\ notes = NoNotes
    /\ poller = Polling
    /\ dd = NoRun

\* ------------------------------------------------------------ environment
\* A scanner drops a new file into the watch directory; the payloads are
\* numbered in the order they arrive.
FileArrives(d) ==
    /\ d \notin arrived
    /\ \A c \in 1..(d - 1) : c \in arrived
    /\ \A e \in watch : FileName(e) # FileName(d)
    /\ watch' = watch \cup {d}
    /\ arrived' = arrived \cup {d}
    /\ UNCHANGED <<staging, intake, duplicates, error_dir, work_dirs, sidecars, consumed,
                   gpu_busy_flag, ocr_queue, unfinished_tasks, worker_vars, main_pc, threads,
                   rec_vars, backend_vars, unlinked, crashes, enq_count, client_vars>>

\* ------------------------------------------------------ ai_post_consume.py
\* main, lines 190-210: which way the sidecar check goes.
\*   "sidecar": the file exists and json.load succeeds (lines 192-203)
\*   "unreadable": the file exists and json.load raises (lines 205-207)
\*   "vision_retry": no file: perform_vision_retry (lines 208-210)
sidecar_way(scs, key, load_ok) ==
    IF key \notin scs THEN "vision_retry"
    ELSE IF load_ok THEN "sidecar"
    ELSE "unreadable"

\* Line 200: os.remove(sidecar_path).
SidecarRemoveSkipped(scs, key) == scs
SidecarRemove(scs, key) == scs \ {key}

\* The buffer directory after the sidecar check.
sidecar_check(scs, key, load_ok) ==
    IF sidecar_way(scs, key, load_ok) = "sidecar" THEN SidecarRemove(scs, key)
    ELSE scs

\* Lines 157-210 of main for the consumed payload d with its original file
\* name: what the run does to the buffer directory.
post_consume_sidecar(d, original_filename, source_exists, load_ok) ==
    LET key == sidecar_path(d, original_filename, source_exists)
    IN  /\ sidecars' = sidecar_check(sidecars, key, load_ok)
        /\ consumed' = IF sidecar_way(sidecars, key, load_ok) = "sidecar"
                       THEN consumed \cup {key} ELSE consumed

\* One run of the script on its own, against the buffer directory as it is.
ai_post_consume(d, original_filename, source_exists, load_ok) ==
    /\ post_consume_sidecar(d, original_filename, source_exists, load_ok)
    /\ UNCHANGED <<watch, staging, intake, duplicates, error_dir, work_dirs,
                   gpu_busy_flag, ocr_queue, unfinished_tasks, worker_vars,
                   main_pc, threads, rec_vars, backend_vars, arrived, unlinked,
                   crashes, enq_count, client_vars>>

\* The backend consumes a file from its intake directory.  A checksum that
\* already has a record keeps it (the backend rejects the duplicate); a new
\* document gets its record and the post-consume script is run for it.
\* started = FALSE: the script ends before the sidecar check (import of the
\* modules, load_config or get_document fails, lines 18-22 and 172-181).
paperless_consume(name) ==
    /\ name \in DOMAIN intake
    /\ LET d == intake[name]
           u == calculate_md5(d)
           new == d \in Docs /\ archive[u] = "none"
       IN  /\ picked_up' = picked_up \cup {d}
           /\ archive' = IF new THEN [archive EXCEPT ![u] = "ok"] ELSE archive
           /\ \E started \in BOOLEAN, source_exists \in BOOLEAN, load_ok \in BOOLEAN :
                IF new /\ started
                THEN post_consume_sidecar(d, name, source_exists, load_ok)
                ELSE UNCHANGED <<sidecars, consumed>>
    /\ intake' = DirDel(intake, name)
    /\ UNCHANGED <<watch, staging, duplicates, error_dir, work_dirs,
                   gpu_busy_flag, ocr_queue, unfinished_tasks, worker_vars,
                   main_pc, threads, rec_vars, arrived, unlinked, crashes,
                   enq_count, client_vars>>

\* The backing file of an archived document disappears from the media
\* directory: the record becomes a zombie entry.
media_file_lost(u) ==
    /\ archive[u] = "ok"
    /\ archive' = [archive EXCEPT ![u] = "zombie"]
    /\ UNCHANGED <<fs_vars, gpu_busy_flag, ocr_queue, unfinished_tasks, worker_vars, main_pc,
                   threads, rec_vars, picked_up, arrived, unlinked,
                   crashes, enq_count, client_vars>>

\* --------------------------------------------------- modules/paperless_client
\* PaperlessClient.get_document_by_checksum: the record whose checksum equals
\* the argument, or None when there is none or the request fails
\* (request_ok = FALSE: requests.RequestException is caught and None returned).
get_document_by_checksum(checksum, request_ok) ==
    IF request_ok THEN archive[checksum] ELSE "none"

\* The zombie check of process_file_single: with metadata, the backing file
\* must exist on disk; without metadata (request failed) the record is trusted.
file_exists(duplicate, metadata_ok) ==
    IF metadata_ok THEN duplicate = "ok" ELSE TRUE

\* PaperlessClient.__init__ sets api_url, token, headers and public_url and no
\* attribute `session`: client.session raises AttributeError.
SessionDefined == FALSE

\* PaperlessClient.get_tag_id_by_name, lines 47-59: the request goes through
\* self.session inside the try block; the AttributeError is caught and None
\* returned.
get_tag_id_by_name(tag_name) == IF SessionDefined THEN tag_name ELSE "none"

\* PaperlessClient.remove_tag, lines 86-99: without a tag id nothing is done;
\* request_ok = FALSE: a request fails and the handler logs it.
remove_tag(tgs, document_id, tag_name, request_ok) ==
    IF get_tag_id_by_name(tag_name) # "none" /\ request_ok
    THEN [tgs EXCEPT ![document_id] = @ \ {tag_name}]
    ELSE tgs

\* PaperlessClient.add_tag, lines 61-84: without a tag id the tag is created
\* through self.session (lines 66-71, bare except); then the document's tag
\* list is read, extended and written back.
add_tag(tgs, document_id, tag_name, request_ok) ==
    IF get_tag_id_by_name(tag_name) # "none" /\ request_ok
    THEN [tgs EXCEPT ![document_id] = @ \cup {tag_name}]
    ELSE tgs

\* --------------------------------------------------------------- the queue
\* queue.Queue() without maxsize: put never blocks.
PutBlocksBounded(q) == Len(q) >= 1
PutBlocks(q) == FALSE

\* queue.Queue is FIFO: get returns the oldest element.
QueueGetIndexLifo(q) == Len(q)
QueueGetIndex(q) == 1

QueueRemove(q, i) == [j \in 1..(Len(q) - 1) |-> IF j < i THEN q[j] ELSE q[j + 1]]

Job(uid, original_filename, work_dir, pages, duplicate_info, retro_doc_id, seq) ==
    [uid |-> uid, original_filename |-> original_filename, staged_file |-> uid,
     work_dir |-> work_dir, b64_images |-> pages,
     duplicate_info |-> duplicate_info, retro_doc_id |-> retro_doc_id,
     seq |-> seq]

\* ---------------------------------------------------------------- producer
\* process_file_single, lines 87-137: the outcome of the binary duplicate
\* check.  "raise": an exception inside the try block, handled at line 138.
binary_duplicate_check(u, raises, lookup_ok, metadata_ok) ==
    IF raises THEN "raise"
    ELSE LET duplicate == get_document_by_checksum(u, lookup_ok)
         IN  IF duplicate = "none" THEN "new"
             ELSE IF file_exists(duplicate, metadata_ok) THEN "duplicate"
             ELSE "zombie"

\* Lines 141-177 (pre-vision check, work_dir, img_dir) are indented into the
\* except clause of line 138: work_dir and img_dir are bound only when the
\* duplicate check raised.
WorkDirBoundAlways(chk) == TRUE
WorkDirBound(chk) == chk = "raise"

\* process_file_single as a whole: which way the file goes.
\*   e.md5_ok        calculate_md5 succeeds (else return False)
\*   e.chk_raises    the duplicate-check block raises
\*   e.lookup_ok     config present and checksum request answered
\*   e.metadata_ok   metadata request answered
\*   e.optimizer_ok  DocumentOptimizer imports (else return False)
\*   e.raster_ok     convert_from_path / optimize_image can convert the file
\*   e.lookup2_ok    fail-safe: config present and checksum request answered
\*   e.move_ok       fail-safe: the move to duplicates or intake succeeds
process_file_single(d, e) ==
    LET u == calculate_md5(d)
        chk == binary_duplicate_check(u, e.chk_raises, e.lookup_ok, e.metadata_ok)
    IN  IF ~e.md5_ok THEN "md5_error"
        ELSE IF chk = "duplicate" THEN "duplicate"
        ELSE IF ~e.optimizer_ok THEN "import_error"
        ELSE IF WorkDirBound(chk) /\ e.raster_ok THEN "staged"
        ELSE IF ~e.move_ok THEN "failsafe_error"
        ELSE IF get_document_by_checksum(u, e.lookup2_ok) # "none"
             THEN "failsafe_duplicate"
        ELSE "failsafe_consume"

\* The ways on which process_file_single returns False.
ReturnsFalse(way) == way \in {"md5_error", "import_error", "failsafe_error"}

\* img_dir.mkdir at line 177 ran on this way through process_file_single.
CreatesWorkDir(e, way) ==
    /\ way \in {"import_error", "staged", "failsafe_error", "failsafe_duplicate",
                "failsafe_consume"}
    /\ WorkDirBound(IF e.chk_raises THEN "raise" ELSE "new")

\* The inputs of one call; an input the call never reads on its way is
\* pinned, so that each way through the function is drawn once.
ProducerEnv ==
    {e \in [md5_ok : BOOLEAN, chk_raises : BOOLEAN, lookup_ok : BOOLEAN,
            metadata_ok : BOOLEAN, similar : BOOLEAN, optimizer_ok : BOOLEAN,
            raster_ok : BOOLEAN, lookup2_ok : BOOLEAN, move_ok : BOOLEAN,
            pages : 1..MaxPages] :
        LET staged == e.md5_ok /\ e.chk_raises /\ e.optimizer_ok /\ e.raster_ok
        IN  /\ ~e.md5_ok => e.chk_raises /\ e.optimizer_ok /\ e.raster_ok
            /\ e.chk_raises => e.lookup_ok
            /\ e.chk_raises \/ ~e.lookup_ok => e.metadata_ok
            /\ ~e.optimizer_ok \/ ~e.chk_raises => e.raster_ok
            /\ ~staged => e.similar /\ e.pages = 1
            /\ staged \/ ~e.md5_ok \/ ~e.optimizer_ok => e.lookup2_ok /\ e.move_ok
            /\ ~e.move_ok => e.lookup2_ok}

\* process_file_and_cleanup, lines 643-646: a file whose processing returned
\* False is moved to WATCH_DIR/error.
ErrorMoveSkipped(w, err, d) == <<w, err>>
ErrorMove(w, err, d) == <<w \ {d}, DirPut(err, FileName(d), d)>>

\* process_file_and_cleanup(pdf) under the inputs e.
process_file_with(d, e) ==
    /\ main_pc = "watch"
    /\ d \in watch
    /\ LET u == calculate_md5(d)
           way == process_file_single(d, e)
           error == ErrorMove(watch, error_dir, d)
       IN  /\ way = "staged" => ~PutBlocks(ocr_queue)
           /\ watch' = IF ReturnsFalse(way) THEN error[1] ELSE watch \ {d}
           /\ error_dir' = IF ReturnsFalse(way) THEN error[2] ELSE error_dir
           /\ work_dirs' = IF CreatesWorkDir(e, way)
                           THEN work_dirs \cup {WatchWorkDir(d)} ELSE work_dirs
           /\ duplicates' = IF way \in {"duplicate", "failsafe_duplicate"}
                            THEN duplicates \cup {d} ELSE duplicates
           /\ intake' = IF way = "failsafe_consume"
                        THEN DirPut(intake, OrigName(d), d) ELSE intake
           /\ staging' = IF way = "staged" THEN DirPut(staging, u, d) ELSE staging
           /\ ocr_queue' = IF way = "staged"
                           THEN Append(ocr_queue,
                                       Job(u, OrigName(d), WatchWorkDir(d), e.pages,
                                           e.similar, 0, enq_count + 1))
                           ELSE ocr_queue
           /\ unfinished_tasks' = IF way = "staged" THEN unfinished_tasks + 1
                                  ELSE unfinished_tasks
           /\ enq_count' = IF way = "staged" THEN enq_count + 1 ELSE enq_count
    /\ UNCHANGED <<sidecars, consumed, gpu_busy_flag, worker_vars, main_pc,
                   threads, rec_vars, backend_vars, arrived, unlinked, crashes, client_vars>>

\* One pass of the watch loop over one file: process_file_and_cleanup(pdf).
process_file_and_cleanup(d) == \E e \in ProducerEnv : process_file_with(d, e)

\* ------------------------------------------------------------------ worker
\* gpu_worker never assigns full_ai_text (page_texts is collected and never
\* joined): reading it at line 321 or 343 raises NameError.
FullAiTextDefinedJoined == TRUE
FullAiTextDefined == FALSE

\* The while-True loop of gpu_worker reaches ocr_queue.get() only at the top of
\* an iteration, after the previous job's success or exception path.
WorkerReadyAlways(running) == TRUE
WorkerReady(running) == running = <<>>

\* Lines 285-297: take the next job, mark the GPU busy.
gpu_get ==
    /\ threads > 0
    /\ WorkerReady(inflight)
    /\ ocr_queue # <<>>
    /\ LET i == QueueGetIndex(ocr_queue)
           item == ocr_queue[i]
           rest == QueueRemove(ocr_queue, i)
       IN  /\ ocr_queue' = rest
           /\ inflight' = Append(inflight,
                  [job |-> item, results |-> <<>>, page_texts |-> <<>>,
                   remaining |-> Len(rest)])
           /\ last_started' = item.seq
    /\ gpu_busy_flag' = TRUE
    /\ UNCHANGED <<fs_vars, unfinished_tasks, w_last, main_pc, threads, rec_vars,
                   backend_vars, arrived, unlinked, crashes, enq_count, client_vars>>

\* Line 304: an empty result becomes the marker.
page_textUnmarked(text) == text
page_text(text) == IF text = "" THEN "[OCR FEHLER]" ELSE text

\* Line 299: the page loop is over when every rendered page has its text.
PageLoopDone(texts, n) == Len(texts) = n

\* Lines 299-306: one pass of the page loop.  llm_client.generate returns the
\* recognized text, or "" when every attempt failed; it never raises.
gpu_generate ==
    /\ threads > 0
    /\ inflight # <<>>
    /\ ~PageLoopDone(inflight[1].page_texts, inflight[1].job.b64_images)
    /\ \E text \in {"", "text"} :
        inflight' = [inflight EXCEPT
                        ![1].results = Append(@, text),
                        ![1].page_texts = Append(@, page_text(text))]
    /\ UNCHANGED <<fs_vars, gpu_busy_flag, ocr_queue, unfinished_tasks, w_last,
                   last_started, main_pc, threads, rec_vars, backend_vars,
                   arrived, unlinked, crashes, enq_count, client_vars>>

\* Lines 377-386: the exception handler's hand-off of the staged file.
ExceptionHandOffNone(stg, itk, job) == <<stg, itk>>
ExceptionHandOffCopy(stg, itk, job) ==
    IF job.staged_file \in DOMAIN stg
    THEN <<stg, DirPut(itk, job.original_filename, stg[job.staged_file])>>
    ELSE <<stg, itk>>
ExceptionHandOff(stg, itk, job) ==
    IF job.staged_file \in DOMAIN stg
    THEN <<DirDel(stg, job.staged_file),
           DirPut(itk, job.original_filename, stg[job.staged_file])>>
    ELSE <<stg, itk>>

\* Lines 308-390: the end of an iteration, after the page loop.
\*   "retro_done" / "retro_error": lines 311-334, then cleanup 357-368
\*   "delivered": lines 336-355, then cleanup 357-368
\*   "exception": the handler of lines 370-390
gpu_finish_way(job, stg) ==
    IF job.retro_doc_id # 0
    THEN IF SessionDefined /\ FullAiTextDefined THEN "retro_done" ELSE "retro_error"
    ELSE IF FullAiTextDefined /\ job.staged_file \in DOMAIN stg THEN "delivered"
    ELSE "exception"

\* What the end of the iteration leaves on disk: the staging directory, the
\* intake directory and the buffer directory.
gpu_finish_sidecar_only(job, stg, itk, scs) ==
    [way |-> "exception", staging |-> stg, intake |-> itk,
     sidecars |-> scs \cup {sidecar_json(job.uid)}]
gpu_finish_result(job, stg, itk, scs) ==
    LET way == gpu_finish_way(job, stg)
        handoff == ExceptionHandOff(stg, itk, job)
    IN  [way |-> way,
         sidecars |-> IF job.retro_doc_id = 0 /\ FullAiTextDefined
                      THEN scs \cup {sidecar_json(job.uid)} ELSE scs,
         staging |-> CASE way = "retro_done" -> DirDel(stg, job.staged_file)
                       [] way = "retro_error" -> stg
                       [] way = "delivered" -> DirDel(stg, job.staged_file)
                       [] OTHER -> handoff[1],
         intake |-> CASE way = "delivered" ->
                            DirPut(itk, job.original_filename, stg[job.staged_file])
                      [] way = "exception" -> handoff[2]
                      [] OTHER -> itk]

\* ocr_queue.task_done(): line 362 on the way through the try block, line 388
\* in the exception handler.
TaskDoneCallsTryOnly(way) == IF way = "exception" THEN 0 ELSE 1
TaskDoneCalls(way) == 1

\* while True (line 283) with except Exception (line 370): the thread goes on
\* to the next iteration whichever way the last one ended.
LoopContinuesTryOnly(way) == way # "exception"
LoopContinues(way) == TRUE

gpu_finish ==
    /\ threads > 0
    /\ inflight # <<>>
    /\ PageLoopDone(inflight[1].page_texts, inflight[1].job.b64_images)
    /\ LET job == inflight[1].job
           end == gpu_finish_result(job, staging, intake, sidecars)
       IN  /\ w_last' = end.way
           /\ sidecars' = end.sidecars
           /\ staging' = end.staging
           /\ intake' = end.intake
           /\ work_dirs' = work_dirs \ {job.work_dir}
           /\ unfinished_tasks' = unfinished_tasks - TaskDoneCalls(end.way)
           /\ gpu_busy_flag' = IF end.way = "exception" THEN FALSE
                               ELSE IF ocr_queue = <<>> THEN FALSE
                               ELSE gpu_busy_flag
           /\ threads' = IF LoopContinues(end.way) THEN threads ELSE 0
           /\ \E remove_ok \in BOOLEAN, add_ok \in BOOLEAN :
                tags' = IF end.way = "retro_done"
                        THEN add_tag(remove_tag(tags, job.retro_doc_id,
                                                "AI-OCR-processing", remove_ok),
                                     job.retro_doc_id, "AI-OCR-done", add_ok)
                        ELSE tags
    /\ inflight' = Tail(inflight)
    /\ UNCHANGED <<watch, duplicates, error_dir, consumed, ocr_queue,
                   last_started, main_pc, rec_vars, backend_vars, arrived,
                   unlinked, crashes, enq_count, call, dd, notes, poller>>

\* ---------------------------------------------------------------- recovery
\* main(), lines 572-583: start the worker and the poller threads.
main_start ==
    /\ main_pc = "boot"
    /\ threads' = threads + 1
    /\ main_pc' = "recover_scan"
    /\ UNCHANGED <<fs_vars, gpu_busy_flag, ocr_queue, unfinished_tasks, worker_vars, rec_vars,
                   backend_vars, arrived, unlinked, crashes, enq_count, client_vars>>

\* recover_staged_files, lines 396-427: purge watch_work_* directories, list
\* the staged files, load the modules (any exception: return).
recover_scan ==
    /\ main_pc = "recover_scan"
    /\ work_dirs' = {w \in work_dirs : w[1] # "watch_work"}
    /\ \E modules_ok \in BOOLEAN, config \in BOOLEAN :
        IF DOMAIN staging = {} \/ ~modules_ok
        THEN /\ main_pc' = "watch"
             /\ UNCHANGED <<staged_pdfs, rec_client>>
        ELSE /\ main_pc' = "recover"
             /\ staged_pdfs' = DOMAIN staging
             /\ rec_client' = config
    /\ UNCHANGED <<watch, staging, intake, duplicates, error_dir, sidecars, consumed,
                   gpu_busy_flag, ocr_queue, unfinished_tasks, worker_vars, threads, rec_last,
                   backend_vars, arrived, unlinked, crashes, enq_count, client_vars>>

\* Lines 437-450: a checksum match makes the staged file a ghost; it is
\* unlinked whatever the state of the record's backing file.
IsGhostVerified(duplicate) == duplicate = "ok"
IsGhost(duplicate) == duplicate # "none"

\* Line 443: staged_file.unlink().
GhostCleanupKeep(stg, u) == stg
GhostCleanup(stg, u) == DirDel(stg, u)

\* Lines 483-487: the fallback move of the staged file to CONSUME_DIR.
RecoveryFallbackDrop(stg, itk, u) == <<DirDel(stg, u), itk>>
RecoveryFallback(stg, itk, u) ==
    IF u \in DOMAIN stg
    THEN <<DirDel(stg, u), DirPut(itk, StagedName(u), stg[u])>>
    ELSE <<stg, itk>>

\* Lines 429-489: one iteration of the loop over the staged files.
\*   "md5_error": calculate_md5 raises because the file is gone (handler 481-489)
\*   "ghost": the lookup returned a record (lines 441-450)
\*   "enqueued": lines 452-479
\*   "raster_error": convert_from_path or optimize_image raises (handler 481-489)
recover_way(u, request_ok, raster_ok) ==
    LET duplicate == IF rec_client THEN get_document_by_checksum(u, request_ok)
                     ELSE "none"
    IN  IF u \notin DOMAIN staging THEN "md5_error"
        ELSE IF IsGhost(duplicate) THEN "ghost"
        ELSE IF raster_ok THEN "enqueued"
        ELSE "raster_error"

recover_file(u) ==
    /\ main_pc = "recover"
    /\ u \in staged_pdfs
    /\ \E request_ok \in BOOLEAN, raster_ok \in BOOLEAN, pages \in 1..MaxPages :
        LET way == recover_way(u, request_ok, raster_ok)
            duplicate == IF way = "md5_error" \/ ~rec_client THEN "none"
                         ELSE get_document_by_checksum(u, request_ok)
            fallback == RecoveryFallback(staging, intake, u)
        IN  /\ rec_last' = [uid |-> u, duplicate |-> duplicate, outcome |-> way]
            /\ staging' = CASE way = "ghost" -> GhostCleanup(staging, u)
                            [] way \in {"md5_error", "raster_error"} -> fallback[1]
                            [] OTHER -> staging
            /\ intake' = IF way \in {"md5_error", "raster_error"}
                         THEN fallback[2] ELSE intake
            /\ unlinked' = IF way = "ghost"
                           THEN unlinked \cup {<<staging[u], archive[u]>>}
                           ELSE unlinked
            /\ work_dirs' = IF way \in {"enqueued", "raster_error"}
                            THEN work_dirs \cup {RecoveryWorkDir(u)} ELSE work_dirs
            /\ way = "enqueued" => ~PutBlocks(ocr_queue)
            /\ ocr_queue' = IF way = "enqueued"
                            THEN Append(ocr_queue,
                                        Job(u, RecoveredName(u), RecoveryWorkDir(u),
                                            pages, FALSE, 0, enq_count + 1))
                            ELSE ocr_queue
            /\ unfinished_tasks' = IF way = "enqueued" THEN unfinished_tasks + 1
                                   ELSE unfinished_tasks
            /\ enq_count' = IF way = "enqueued" THEN enq_count + 1 ELSE enq_count
    /\ staged_pdfs' = staged_pdfs \ {u}
    /\ UNCHANGED <<watch, duplicates, error_dir, sidecars, consumed, gpu_busy_flag,
                   worker_vars, main_pc, threads, rec_client, backend_vars,
                   arrived, crashes, client_vars>>

\* The loop is over: recover_staged_files returns and main enters the watch loop.
recover_return ==
    /\ main_pc = "recover"
    /\ staged_pdfs = {}
    /\ main_pc' = "watch"
    /\ rec_client' = FALSE
    /\ rec_last' = NoVisit
    /\ UNCHANGED <<fs_vars, gpu_busy_flag, ocr_queue, unfinished_tasks, worker_vars, threads,
                   staged_pdfs, backend_vars, arrived, unlinked, crashes,
                   enq_count, client_vars>>

\* ------------------------------------------------------------------ poller
\* ai_retagger, lines 497-554 of one pass of the loop: the query for the
\* documents tagged AI-OCR and, for a document u it returns, the download into
\* staging, the rendering and the put.  The request at line 511 goes through
\* client.session; when that raises, the handler of line 567 takes over.
\*   config        load_config returns a configuration
\*   download_ok   metadata, download and rendering of u succeed
ai_retagger_with(config, u, download_ok, pages) ==
    /\ threads > 0
    /\ poller.pc = "poll"
    /\ IF /\ config /\ SessionDefined /\ "AI-OCR" \in tags[u]
          /\ archive[u] # "none" /\ download_ok
       THEN /\ ~PutBlocks(ocr_queue)
            /\ staging' = DirPut(staging, u, RetroCopy(u))
            /\ work_dirs' = work_dirs \cup {RetroWorkDir(u)}
            /\ ocr_queue' = Append(ocr_queue,
                                   Job(u, <<"title", u>>, RetroWorkDir(u), pages,
                                       FALSE, u, enq_count + 1))
            /\ unfinished_tasks' = unfinished_tasks + 1
            /\ enq_count' = enq_count + 1
            /\ poller' = [pc |-> "swap", doc |-> u]
       ELSE /\ UNCHANGED <<staging, work_dirs, ocr_queue, unfinished_tasks, enq_count>>
            /\ poller' = [pc |-> "sleep", doc |-> 0]
    /\ UNCHANGED <<watch, intake, duplicates, error_dir, sidecars, consumed, gpu_busy_flag,
                   worker_vars, main_pc, threads, rec_vars, backend_vars,
                   arrived, unlinked, crashes, call, dd, annot_vars>>

ai_retagger ==
    \E config \in BOOLEAN, u \in Uids, download_ok \in BOOLEAN, pages \in 1..MaxPages :
        ai_retagger_with(config, u, download_ok, pages)

\* Lines 556-569: after a put the tag swap AI-OCR -> AI-OCR-processing, then
\* the sleep until the next pass (300 s, or 60 s in the handler of line 567).
ai_retagger_sleep ==
    /\ threads > 0
    /\ poller.pc \in {"swap", "sleep"}
    /\ \E remove_ok \in BOOLEAN, add_ok \in BOOLEAN :
        tags' = IF poller.pc = "swap"
                THEN add_tag(remove_tag(tags, poller.doc, "AI-OCR", remove_ok),
                             poller.doc, "AI-OCR-processing", add_ok)
                ELSE tags
    /\ poller' = Polling
    /\ UNCHANGED <<fs_vars, gpu_busy_flag, ocr_queue, unfinished_tasks, worker_vars,
                   main_pc, threads, rec_vars, backend_vars, arrived, unlinked,
                   crashes, enq_count, call, dd, notes>>

\* ------------------------------------------------------------------- crash
\* The process dies (kill, power loss, container restart): the queue, the
\* threads and every local are gone, the file system stays as it is.
Crash ==
    /\ crashes < MaxCrashes
    /\ main_pc # "boot"
    /\ crashes' = crashes + 1
    /\ main_pc' = "boot"
    /\ threads' = 0
    /\ ocr_queue' = <<>>
    /\ unfinished_tasks' = 0
    /\ inflight' = <<>>
    /\ w_last' = "none"
    /\ last_started' = 0
    /\ enq_count' = 0
    /\ staged_pdfs' = {}
    /\ rec_client' = FALSE
    /\ rec_last' = NoVisit
    /\ poller' = Polling
    /\ UNCHANGED <<fs_vars, gpu_busy_flag, backend_vars, arrived, unlinked, call, dd,
                   annot_vars>>

Next ==
    \/ \E d \in Docs : FileArrives(d)
    \/ \E name \in DOMAIN intake : paperless_consume(name)
    \/ \E u \in Uids : media_file_lost(u)
    \/ main_start
    \/ recover_scan
    \/ \E u \in Uids : recover_file(u)
    \/ recover_return
    \/ \E d \in Docs : process_file_and_cleanup(d)
    \/ gpu_get
    \/ gpu_generate
    \/ gpu_finish
    \/ ai_retagger
    \/ ai_retagger_sleep
    \/ Crash

Spec == Init /\ [][Next]_vars

\* The steps of the two threads of one run.  A thread is sequential: at most
\* one of its steps is enabled at a time.
MainStep ==
    \/ main_start
    \/ recover_scan
    \/ \E u \in Uids : recover_file(u)
    \/ recover_return
    \/ \E d \in Docs : process_file_and_cleanup(d)

WorkerStep == gpu_get \/ gpu_generate \/ gpu_finish

\* The scheduling the code provides: neither thread is suspended for ever
\* (the worker blocks only in ocr_queue.get(), the main thread only in
\* time.sleep), and every inference call returns (LLMClient.generate ends after
\* at most four attempts).  Arrivals, the backend, the poller and crashes are
\* under no obligation.
FairSpec == Spec /\ WF_vars(MainStep) /\ WF_vars(WorkerStep)

\* ------------------------------------------ ai_post_consume.py on its own
\* The script is a process of its own, started by the backend for a consumed
\* document; the buffer directory is its input.  Every document has been
\* consumed, the buffer directory holds any set of sidecar files.
SidecarInit ==
    /\ sidecars \in SUBSET SidecarKeys
    /\ consumed = {}
    /\ archive = [u \in Uids |-> "ok"]
    /\ picked_up = Docs
    /\ arrived = Docs
    /\ watch = {}
    /\ staging = EmptyDir
    /\ intake = EmptyDir
    /\ duplicates = {}
    /\ error_dir = EmptyDir
    /\ work_dirs = {}
    /\ gpu_busy_flag = FALSE
    /\ ocr_queue = <<>>
    /\ unfinished_tasks = 0
    /\ inflight = <<>>
    /\ w_last = "none"
    /\ main_pc = "watch"
    /\ threads = 1
    /\ staged_pdfs = {}
    /\ rec_client = FALSE
    /\ rec_last = NoVisit
    /\ unlinked = {}
    /\ crashes = 0
    /\ enq_count = 0
    /\ last_started = 0
    /\ call = NoCall
    /\ tags = NoTags
    /\ notes = NoNotes
    /\ poller = Polling
    /\ dd = NoRun

SidecarNext ==
    \E d \in Docs : \E n \in IntakeNames(d) :
        \E source_exists \in BOOLEAN, load_ok \in BOOLEAN :
            ai_post_consume(d, n, source_exists, load_ok)

SidecarSpec == SidecarInit /\ [][SidecarNext]_vars

\* ------------------------------------------------------ modules/llm_client
\* LLMClient.generate, lines 29-30.
delays == <<5, 10, 15>>
max_attempts == Len(delays) + 1

\* What one requests.post can come back with: no response at all (connection
\* error or timeout, an exception), or a response with a status code.
NoResponse == 0
Responses == {NoResponse, 200, 404, 500, 503}

\* HTTP status codes of the class 5xx (server error).
ServerErrors == {r \in Responses : r >= 500 /\ r <= 599}

\* Lines 37-50: the routing of one attempt.  flag: os.path.exists of
\* /volume1/temp/.gpu_busy at that moment.
routeFlagBlind(images, flag) == [host |-> "host", model |-> "vision_model"]
route(images, flag) ==
    IF images THEN [host |-> "host", model |-> "vision_model"]
    ELSE IF ~flag THEN [host |-> "host", model |-> "vision_model"]
    ELSE [host |-> "cpu_host", model |-> "summary_model"]

\* Lines 77-98: what the loop does with the response of attempt `attempt`
\* (counted from 0, as range(max_attempts) does).
\*   "return": status 200, the text is returned (line 78)
\*   "retry": status 500 or an exception with a delay left: sleep, next attempt
\*   "give_up": status 500 or an exception on the last attempt: return ""
\*   "other": any other status: return "" at once (lines 88-90)
generate_way(r, attempt) ==
    IF r = 200 THEN "return"
    ELSE IF r = 500 \/ r = NoResponse
         THEN IF attempt < Len(delays) THEN "retry" ELSE "give_up"
    ELSE "other"

\* A client process (ai_post_consume.py) calls LLMClient.generate: with an
\* image from perform_vision_retry (extract_text_from_images and
\* extract_metadata_from_image, lines 93 and 96), without one from
\* MetadataExtractor.process and ContentEnhancer.  Neither caller touches the
\* GPU-busy flag.
generate_call(images) ==
    /\ call.status \in {"none", "returned"}
    /\ call' = [NoCall EXCEPT !.status = "routing", !.kind = "generate",
                              !.images = images]
    /\ UNCHANGED <<fs_vars, gpu_busy_flag, ocr_queue, unfinished_tasks,
                   worker_vars, main_pc, threads, rec_vars, backend_vars,
                   arrived, unlinked, crashes, enq_count, dd, annot_vars,
                   poller>>

\* Lines 32-75: the top of one pass of the retry loop, up to requests.post.
generate_post ==
    /\ call.status = "routing"
    /\ call.kind = "generate"
    /\ LET target == route(call.images, gpu_busy_flag)
       IN  call' = [call EXCEPT !.status = "posted",
                                !.sent = [host |-> target.host,
                                          model |-> target.model,
                                          flag |-> gpu_busy_flag]]
    /\ UNCHANGED <<fs_vars, gpu_busy_flag, ocr_queue, unfinished_tasks,
                   worker_vars, main_pc, threads, rec_vars, backend_vars,
                   arrived, unlinked, crashes, enq_count, dd, annot_vars,
                   poller>>

\* Lines 77-98: the response (or the exception) of the request in flight.
generate_response(r) ==
    /\ call.status = "posted"
    /\ call.kind = "generate"
    /\ LET way == generate_way(r, call.attempt)
       IN  call' = IF way = "retry"
                   THEN [call EXCEPT !.status = "routing",
                                     !.attempt = @ + 1,
                                     !.waits = Append(@, delays[call.attempt + 1])]
                   ELSE [call EXCEPT !.status = "returned",
                                     !.result = IF way = "return" THEN "text"
                                                ELSE ""]
    /\ UNCHANGED <<fs_vars, gpu_busy_flag, ocr_queue, unfinished_tasks,
                   worker_vars, main_pc, threads, rec_vars, backend_vars,
                   arrived, unlinked, crashes, enq_count, dd, annot_vars,
                   poller>>

\* LLMClient.generate_embedding, lines 101-111: one request to the CPU host.
generate_embedding ==
    /\ call.status \in {"none", "returned"}
    /\ call' = [NoCall EXCEPT !.status = "posted", !.kind = "embedding",
                              !.sent = [host |-> "cpu_host",
                                        model |-> "embedding_model",
                                        flag |-> gpu_busy_flag]]
    /\ UNCHANGED <<fs_vars, gpu_busy_flag, ocr_queue, unfinished_tasks,
                   worker_vars, main_pc, threads, rec_vars, backend_vars,
                   arrived, unlinked, crashes, enq_count, dd, annot_vars,
                   poller>>

\* Lines 112-117: status 200 returns the embedding, anything else [].
embedding_response(r) ==
    /\ call.status = "posted"
    /\ call.kind = "embedding"
    /\ call' = [call EXCEPT !.status = "returned",
                            !.result = IF r = 200 THEN "embedding" ELSE ""]
    /\ UNCHANGED <<fs_vars, gpu_busy_flag, ocr_queue, unfinished_tasks,
                   worker_vars, main_pc, threads, rec_vars, backend_vars,
                   arrived, unlinked, crashes, enq_count, dd, annot_vars,
                   poller>>

\* The client process next to the worker: the watchdog is in its watch loop
\* with one staged job on the queue, as process_file_single leaves it (lines
\* 199-214), or with none.
LLMInit ==
    \E queued \in BOOLEAN, pages \in 1..MaxPages :
        /\ watch = {}
        /\ staging = IF queued THEN DirPut(EmptyDir, calculate_md5(1), 1)
                     ELSE EmptyDir
        /\ intake = EmptyDir
        /\ duplicates = {}
        /\ error_dir = EmptyDir
        /\ work_dirs = IF queued THEN {WatchWorkDir(1)} ELSE {}
        /\ sidecars = {}
        /\ consumed = {}
        /\ gpu_busy_flag = FALSE
        /\ ocr_queue = IF queued
                       THEN <<Job(calculate_md5(1), OrigName(1), WatchWorkDir(1),
                                  pages, FALSE, 0, 1)>>
                       ELSE <<>>
        /\ unfinished_tasks = IF queued THEN 1 ELSE 0
        /\ inflight = <<>>
        /\ w_last = "none"
        /\ main_pc = "watch"
        /\ threads = 1
        /\ staged_pdfs = {}
        /\ rec_client = FALSE
        /\ rec_last = NoVisit
        /\ archive = [c \in Uids |-> "none"]
        /\ picked_up = {}
        /\ arrived = IF queued THEN {1} ELSE {}
        /\ unlinked = {}
        /\ crashes = 0
        /\ enq_count = IF queued THEN 1 ELSE 0
        /\ last_started = 0
        /\ call = NoCall
        /\ tags = NoTags
        /\ notes = NoNotes
        /\ poller = Polling
        /\ dd = NoRun

LLMNext ==
    \/ gpu_get
    \/ gpu_generate
    \/ gpu_finish
    \/ \E images \in BOOLEAN : generate_call(images)
    \/ generate_post
    \/ \E r \in Responses : generate_response(r)
    \/ generate_embedding
    \/ \E r \in Responses : embedding_response(r)

LLMSpec == LLMInit /\ [][LLMNext]_vars

\* ----------------------------------------------- modules/duplicate_detector
\* A text is known by what the detector reads from it: len(text), the dates
\* _extract_dates finds, the features _extract_features finds and the set of
\* its lower-cased words longer than two characters.
Text(len, dates, feats, words) ==
    [len |-> len, dates |-> dates, feats |-> feats, words |-> words]

extract_dates(text) == text.dates
extract_features(text) == text.feats

\* A ratio n / d is the pair <<n, d>> with d > 0; similarities and thresholds
\* are counted in hundredths.
Below(q, hundredths) == q[1] * 100 < hundredths * q[2]

\* calculate_jaccard, lines 220-226.
calculate_jaccard(set_a, set_b) ==
    IF set_a = {} /\ set_b = {} THEN <<0, 1>>
    ELSE <<Cardinality(set_a \cap set_b), Cardinality(set_a \cup set_b)>>

\* _check_word_similarity, lines 211-218.
check_word_similarity(text1, text2) ==
    IF text1.words = {} \/ text2.words = {} THEN <<0, 1>>
    ELSE <<Cardinality(text1.words \cap text2.words),
           Cardinality(text1.words \cup text2.words)>>

\* Lines 76-78 and 95-97: the threshold of the date and of the feature check.
date_thresholdStricter(similarity) == IF similarity > 98 THEN 90 ELSE 80
date_threshold(similarity) == IF similarity > 98 THEN 50 ELSE 80
feat_thresholdLow(similarity) == 50
feat_threshold(similarity) == IF similarity > 98 THEN 50 ELSE 80

\* Lines 120-124: the word similarity required.
base_req(current_content, similarity) ==
    (IF current_content.len < 1500 THEN 90 ELSE 85)
    - (IF similarity > 95 THEN 10 ELSE 0)

\* Lines 62-128: is_confirmed_duplicate after the safety cascade, for a
\* candidate whose content could be retrieved.
safety_cascade(current_content, candidate_content, similarity) ==
    LET dates_current == extract_dates(current_content)
        dates_candidate == extract_dates(candidate_content)
        feats_current == extract_features(current_content)
        feats_candidate == extract_features(candidate_content)
        date_mismatch ==
            /\ dates_current # {} /\ dates_candidate # {}
            /\ Below(calculate_jaccard(dates_current, dates_candidate),
                     date_threshold(similarity))
        after_dates == ~date_mismatch
        feat_mismatch ==
            /\ after_dates /\ feats_current # {} /\ feats_candidate # {}
            /\ Below(calculate_jaccard(feats_current, feats_candidate),
                     feat_threshold(similarity))
        after_feats == after_dates /\ ~feat_mismatch
        len_mismatch ==
            /\ after_feats
            /\ \/ current_content.len * 100 < 80 * candidate_content.len
               \/ current_content.len * 100 > 125 * candidate_content.len
        word_mismatch ==
            /\ after_feats
            /\ Below(check_word_similarity(current_content, candidate_content),
                     base_req(current_content, similarity))
    IN  after_feats /\ ~len_mismatch /\ ~word_mismatch

\* A document without content, as get_document returns it for a deleted one.
NoText == Text(0, {}, {}, {})

\* One result of the similarity query.  fetch: what paperless.get_document
\* gives for it ("ok"; "none": None, for a stale vector or a request error
\* caught at paperless_client.py:107-109; "empty": no content; "error": an
\* exception raised inside the try block of lines 54-136).
Result(id, similarity, fetch, content) ==
    [id |-> id, similarity |-> similarity, fetch |-> fetch, content |-> content]

\* Lines 54-143: one candidate of the loop.
candidate_outcome(current_content, best) ==
    IF best.fetch = "error" THEN "error"
    ELSE IF best.fetch = "none" THEN "stale"
    ELSE IF best.fetch = "empty" THEN "no_content"
    ELSE IF safety_cascade(current_content, best.content, best.similarity)
         THEN "confirmed"
    ELSE "rejected"

\* Lines 138-141: handle_duplicate is followed by return.
ReturnsAfterMatchNever(outcome) == FALSE
ReturnsAfterMatchOrError(outcome) == outcome \in {"confirmed", "error", "stale"}
ReturnsAfterMatch(outcome) == outcome = "confirmed"

\* ChromaClient.find_similar, lines 101-124: the query results in the order
\* the collection returns them, without the document itself and without those
\* below the threshold.
find_similar(results, threshold, exclude_id) ==
    SelectSeq(results,
              LAMBDA x : x.id # exclude_id /\ x.similarity >= threshold)

\* modules.duplicate_detector.threshold, default of line 34.
threshold == 85

\* The texts of the confirmation runs.  WordsUpTo(n) shares n of the 20 words
\* of the candidates.
WordsUpTo(n) == 1..n
FullText == Text(1500, 1..4, 1..4, WordsUpTo(20))
OtherText == Text(1500, 1..4, {5}, WordsUpTo(20))

CurrentTexts ==
    {Text(len, dates, feats, WordsUpTo(n)) :
        len \in {1200, 1499, 1500}, dates \in {{}, 1..4}, feats \in {{}, 1..4},
        n \in {14, 15, 16, 17, 18, 20}}

CandidateTexts ==
    {Text(len, dates, feats, WordsUpTo(20)) :
        len \in {959, 960, 1200, 1500, 1501, 1875, 1876},
        dates \in {{}, {1, 2}, 1..4, 1..5, {5}},
        feats \in {{}, {1, 2}, 1..4, 1..5, {5}}}

Similarities == {90, 95, 96, 98, 99}

\* collection.query returns its results nearest first: by ascending distance,
\* that is by descending similarity.
NearestFirst(results) ==
    \A i \in 1..(Len(results) - 1) :
        results[i].similarity >= results[i + 1].similarity

\* The results of one query: one candidate with any of the texts, or up to
\* MaxResults results (ids by position) of a few kinds, some of them below
\* the threshold.
ResultKinds ==
    {<<"ok", FullText>>, <<"ok", OtherText>>, <<"none", NoText>>,
     <<"empty", NoText>>, <<"error", NoText>>}

QueryResults ==
    {<<Result(2, similarity, "ok", content)>> :
        similarity \in Similarities, content \in CandidateTexts}
    \cup
    {r \in UNION {[1..n -> {Result(0, similarity, k[1], k[2]) :
                               similarity \in {80, 90, 99}, k \in ResultKinds}] :
                  n \in 0..MaxResults} : NearestFirst(r)}

WithIds(results) ==
    [i \in 1..Len(results) |->
        IF results[i].id = 0 THEN [results[i] EXCEPT !.id = i] ELSE results[i]]

pipeline_vars == <<fs_vars, gpu_busy_flag, ocr_queue, unfinished_tasks,
                   worker_vars, main_pc, threads, rec_vars, backend_vars,
                   arrived, unlinked, crashes, enq_count>>

\* Lines 15-44 of process: the similarity search.  A failed embedding makes
\* find_similar return no candidate (chroma_client.py:90-92).
dd_find_similar ==
    /\ dd.status = "start"
    /\ \E embedding_ok \in BOOLEAN :
        LET similar == IF embedding_ok
                       THEN find_similar(dd.results, threshold, dd.document_id)
                       ELSE <<>>
        IN  dd' = [dd EXCEPT !.status = IF similar = <<>> THEN "done" ELSE "loop",
                             !.similar = similar]
    /\ UNCHANGED <<pipeline_vars, call, annot_vars, poller>>

\* The note of handle_duplicate (lines 241-247): the title of the original, or
\* "Dokument #<id>" when it could not be fetched (lines 231-237), its id and
\* the similarity as a percentage.
PossibleDuplicateNote(original_id, similarity, title_ok) ==
    [kind |-> "possible", original_id |-> original_id,
     title |-> IF title_ok THEN "title" ELSE "default", similarity |-> similarity]

\* The POST to /documents/<id>/notes/ (duplicate_detector.py:250-259 and
\* PaperlessClient.add_note): the backend appends the note.
add_note(nts, doc_id, note, request_ok) ==
    IF request_ok THEN [nts EXCEPT ![doc_id] = Append(@, note)] ELSE nts

\* Lines 262-290: look the tag "Duplikat" up or create it, and patch the
\* document's tags when the tag is not among them.
ensure_tag(tgs, doc_id, request_ok) ==
    IF request_ok /\ "Duplikat" \notin tgs[doc_id]
    THEN [tgs EXCEPT ![doc_id] = @ \cup {"Duplikat"}] ELSE tgs

\* DuplicateDetector.handle_duplicate, lines 228-290.
handle_duplicate(nts, tgs, doc_id, original_id, similarity, title_ok, note_ok, tag_ok) ==
    [notes |-> add_note(nts, doc_id,
                        PossibleDuplicateNote(original_id, similarity, title_ok),
                        note_ok),
     tags |-> ensure_tag(tgs, doc_id, tag_ok)]

\* Lines 45-143: one pass of the loop over the candidates; a confirmed
\* candidate is annotated by handle_duplicate (line 140).
dd_candidate ==
    /\ dd.status = "loop"
    /\ LET best == dd.similar[dd.i]
           outcome == candidate_outcome(dd.current_content, best)
       IN  /\ dd' = [dd EXCEPT
                       !.evaluated = Append(@, dd.i),
                       !.outcomes = Append(@, outcome),
                       !.declared = IF outcome = "confirmed"
                                    THEN Append(@, best.id) ELSE @,
                       !.i = @ + 1,
                       !.status = IF ReturnsAfterMatch(outcome)
                                     \/ dd.i = Len(dd.similar)
                                  THEN "done" ELSE "loop"]
           /\ \E title_ok \in BOOLEAN, note_ok \in BOOLEAN, tag_ok \in BOOLEAN :
                LET marked == handle_duplicate(notes, tags, dd.document_id, best.id,
                                               best.similarity, title_ok, note_ok,
                                               tag_ok)
                IN  /\ notes' = IF outcome = "confirmed" THEN marked.notes ELSE notes
                    /\ tags' = IF outcome = "confirmed" THEN marked.tags ELSE tags
    /\ UNCHANGED <<pipeline_vars, call, poller>>

\* A scanned document with the dates 1..n, two amounts and twenty words.  The
\* amount pattern of line 187 also matches the "dd.mm" of a date dd.mm.yyyy,
\* so every date adds a feature (100 + d); the year of the dates is a word of
\* the text (21), its day and month are too short to be words (line 213).
Scanned(n) ==
    Text(1500, 1..n, {1, 2} \cup {100 + d : d \in 1..n}, WordsUpTo(20) \cup {21})

\* The same document read with one wrong digit in its date n: in the day or
\* the month (the date and its "dd.mm" feature change) or in the year (the
\* date changes, and the misread year is a new word (22) next to the year of
\* the other dates).
Misread(n, digit) ==
    LET dates == (1..(n - 1)) \cup {n + 5}
    IN  IF digit = "day"
        THEN Text(1500, dates, {1, 2} \cup {100 + d : d \in dates},
                  WordsUpTo(20) \cup {21})
        ELSE Text(1500, dates, {1, 2} \cup {100 + d : d \in 1..n},
                  WordsUpTo(20) \cup {22}
                  \cup (IF n > 1 THEN {21} ELSE {}))

\* The state in which DuplicateDetector.process starts for the document
\* document_id with the text current_content, the similarity query having the
\* given results in store.
DetectorRun(results, current_content, document_id) ==
    [status |-> "start", document_id |-> document_id,
     current_content |-> current_content,
     results |-> WithIds(results), similar |-> <<>>, i |-> 1,
     evaluated |-> <<>>, outcomes |-> <<>>, declared |-> <<>>]

\* The post-consume script runs DuplicateDetector.process for document 1 (the
\* one with the full text when several results are returned); the pipeline
\* itself is at rest.  One candidate is tried against every current text,
\* several results against the full text, a scanned document against its
\* misread copy.
DupInit ==
    /\ \/ \E results \in QueryResults :
            \E current_content \in IF Len(results) = 1 /\ results[1].id = 2
                                   THEN CurrentTexts ELSE {FullText} :
            \E document_id \in IF Len(results) = 1 /\ results[1].id = 2
                               THEN {1} ELSE 1..(MaxResults + 1) :
                dd = DetectorRun(results, current_content, document_id)
       \/ \E n \in 1..4, digit \in {"day", "year"}, similarity \in Similarities :
                dd = DetectorRun(<<Result(2, similarity, "ok", Misread(n, digit))>>,
                                 Scanned(n), 1)
    /\ call = NoCall
    /\ tags = NoTags
    /\ notes = NoNotes
    /\ poller = Polling
    /\ watch = {}
    /\ staging = EmptyDir
    /\ intake = EmptyDir
    /\ duplicates = {}
    /\ error_dir = EmptyDir
    /\ work_dirs = {}
    /\ sidecars = {}
    /\ consumed = {}
    /\ gpu_busy_flag = FALSE
    /\ ocr_queue = <<>>
    /\ unfinished_tasks = 0
    /\ inflight = <<>>
    /\ w_last = "none"
    /\ main_pc = "watch"
    /\ threads = 1
    /\ staged_pdfs = {}
    /\ rec_client = FALSE
    /\ rec_last = NoVisit
    /\ archive = [c \in Uids |-> "ok"]
    /\ picked_up = Docs
    /\ arrived = Docs
    /\ unlinked = {}
    /\ crashes = 0
    /\ enq_count = 0
    /\ last_started = 0

DupNext == dd_find_similar \/ dd_candidate

DupSpec == DupInit /\ [][DupNext]_vars

\* ------------------------------------- the duplicate step of the script
\* Notes one document can collect before the script is no longer run on it.
MaxNotes == 2

\* The note main writes for a duplicate hint (ai_post_consume.py:247-252).
HintNote(original_id) ==
    [kind |-> "hint", original_id |-> original_id, title |-> "none", similarity |-> 0]

\* ai_post_consume.py:241 and 255: the detector is appended to the modules
\* when the sidecar's duplicate_info has no true is_duplicate and the module
\* is enabled in the configuration.
RunsDetectorAlways(hint, enabled) == enabled
RunsDetector(hint, enabled) == hint # "true" /\ enabled

\* The query results of a run of the script: an identical document, one with
\* other amounts, or nothing.
HintResults ==
    {<<Result(2, 99, "ok", FullText)>>, <<Result(2, 99, "ok", OtherText)>>, <<>>}

\* main, lines 238-258 and 284-289 of ai_post_consume.py, for the document
\* doc_id with the text FullText.
\*   hint      duplicate_info of the sidecar: "absent" ({} or no sidecar),
\*             "false" or "true" (is_duplicate)
\*   enabled   modules.duplicate_detector.enabled
duplicate_detection(doc_id, hint, original_id, enabled, note_ok, results) ==
    /\ dd.status \in {"none", "done"}
    /\ Len(notes[doc_id]) < MaxNotes
    /\ notes' = IF hint = "true"
                THEN add_note(notes, doc_id, HintNote(original_id), note_ok)
                ELSE notes
    /\ dd' = IF RunsDetector(hint, enabled)
             THEN DetectorRun(results, FullText, doc_id)
             ELSE NoRun
    /\ UNCHANGED <<pipeline_vars, call, tags, poller>>

\* The script has been started for a consumed document; the watchdog is at
\* rest.
HintInit ==
    /\ dd = NoRun
    /\ call = NoCall
    /\ tags = NoTags
    /\ notes = NoNotes
    /\ poller = Polling
    /\ watch = {}
    /\ staging = EmptyDir
    /\ intake = EmptyDir
    /\ duplicates = {}
    /\ error_dir = EmptyDir
    /\ work_dirs = {}
    /\ sidecars = {}
    /\ consumed = {}
    /\ gpu_busy_flag = FALSE
    /\ ocr_queue = <<>>
    /\ unfinished_tasks = 0
    /\ inflight = <<>>
    /\ w_last = "none"
    /\ main_pc = "watch"
    /\ threads = 1
    /\ staged_pdfs = {}
    /\ rec_client = FALSE
    /\ rec_last = NoVisit
    /\ archive = [c \in Uids |-> "ok"]
    /\ picked_up = Docs
    /\ arrived = Docs
    /\ unlinked = {}
    /\ crashes = 0
    /\ enq_count = 0
    /\ last_started = 0

HintNext ==
    \/ \E doc_id \in {1, 3}, hint \in {"absent", "false", "true"},
          original_id \in {2}, enabled \in BOOLEAN, note_ok \in BOOLEAN,
          results \in HintResults :
            duplicate_detection(doc_id, hint, original_id, enabled, note_ok, results)
    \/ dd_find_similar
    \/ dd_candidate

HintSpec == HintInit /\ [][HintNext]_vars

\* --------------------------------------------- an earlier delivery in intake
\* A document delivered before under the file name n, with a content of its
\* own, which the backend has not picked up.
EarlierDoc(n) == 2 * NDocs + n

\* The process starts while the intake directory still holds such a file.
IntakeInit ==
    /\ \E d \in Docs :
        intake = DirPut(EmptyDir, OrigName(d), EarlierDoc(FileName(d)))
    /\ watch = {}
    /\ staging = EmptyDir
    /\ duplicates = {}
    /\ error_dir = EmptyDir
    /\ work_dirs = {}
    /\ sidecars = {}
    /\ consumed = {}
    /\ gpu_busy_flag = FALSE
    /\ ocr_queue = <<>>
    /\ unfinished_tasks = 0
    /\ inflight = <<>>
    /\ w_last = "none"
    /\ main_pc = "boot"
    /\ threads = 0
    /\ staged_pdfs = {}
    /\ rec_client = FALSE
    /\ rec_last = NoVisit
    /\ archive = [u \in Uids |-> "none"]
    /\ picked_up = {}
    /\ arrived = {}
    /\ unlinked = {}
    /\ crashes = 0
    /\ enq_count = 0
    /\ last_started = 0
    /\ call = NoCall
    /\ dd = NoRun
    /\ tags = NoTags
    /\ notes = NoNotes
    /\ poller = Polling

IntakeSpec == IntakeInit /\ [][Next]_vars

\* ------------------------------------------------- a retroactive request
\* An archived document u carries the request tag AI-OCR.  Either the poller
\* has not seen it yet (queued = FALSE), or the pipeline is as lines 530-554 of
\* ai_retagger leave it: the download lies in staging as <uid>.pdf, the
\* working directory retro_<uid> exists, the job with retro_doc_id is on the
\* queue and the poller is about to swap the tags (line 557).
RetroInit ==
    \E u \in Uids, pages \in 1..MaxPages, queued \in BOOLEAN :
        /\ watch = {}
        /\ staging = IF queued THEN DirPut(EmptyDir, u, RetroCopy(u)) ELSE EmptyDir
        /\ intake = EmptyDir
        /\ duplicates = {}
        /\ error_dir = EmptyDir
        /\ work_dirs = IF queued THEN {RetroWorkDir(u)} ELSE {}
        /\ sidecars = {}
        /\ consumed = {}
        /\ gpu_busy_flag = FALSE
        /\ ocr_queue = IF queued
                       THEN <<Job(u, <<"title", u>>, RetroWorkDir(u), pages,
                                  FALSE, u, 1)>>
                       ELSE <<>>
        /\ unfinished_tasks = IF queued THEN 1 ELSE 0
        /\ inflight = <<>>
        /\ w_last = "none"
        /\ main_pc = "watch"
        /\ threads = 1
        /\ staged_pdfs = {}
        /\ rec_client = FALSE
        /\ rec_last = NoVisit
        /\ archive = [c \in Uids |-> IF c = u THEN "ok" ELSE "none"]
        /\ picked_up = {CHOOSE d \in Docs : calculate_md5(d) = u}
        /\ arrived = {CHOOSE d \in Docs : calculate_md5(d) = u}
        /\ unlinked = {}
        /\ crashes = 0
        /\ enq_count = IF queued THEN 1 ELSE 0
        /\ last_started = 0
        /\ call = NoCall
        /\ dd = NoRun
        /\ tags = [NoTags EXCEPT ![u] = {"AI-OCR"}]
        /\ notes = NoNotes
        /\ poller = IF queued THEN [pc |-> "swap", doc |-> u] ELSE Polling

RetroSpec == RetroInit /\ [][Next]_vars

\* =================================================================== claims
Present(p) ==
    \/ p \in watch
    \/ p \in DirDocs(staging)
    \/ p \in DirDocs(intake)
    \/ p \in duplicates
    \/ p \in DirDocs(error_dir)

Payloads == Docs \cup {RetroCopy(u) : u \in Uids}

\* C1: no document is silently lost.  Every payload the producer took from
\* the watch directory is still accounted for: a file with its content lies in
\* the watch, staging, intake, duplicates or error directory, or the backend
\* picked it up from intake, or recovery unlinked it as a ghost; and recovery
\* unlinks a staged file only when its content is archived with the backing
\* file present.
C1_NoDocumentLost ==
    /\ \A d \in arrived \ watch :
        \E c \in Payloads :
            /\ ContentOf(c) = calculate_md5(d)
            /\ \/ Present(c)
               \/ c \in picked_up
               \/ <<c, "ok">> \in unlinked
    /\ \A x \in unlinked : x[2] = "ok"

\* C2: strict FIFO.  The worker takes the jobs in the order their enqueues
\* completed: the jobs still queued are exactly the ones enqueued after the job
\* taken last, in enqueue order.
C2_Fifo ==
    \A i \in 1..Len(ocr_queue) : ocr_queue[i].seq = last_started + i

C2_Witness ==
    /\ last_started >= 2
    /\ inflight # <<>>

\* C3: at most one job is in processing at any moment and there is exactly
\* one consumer thread.
C3_OneJobAtATime ==
    /\ Len(inflight) <= 1
    /\ threads <= 1

C3_Witness ==
    /\ inflight # <<>>
    /\ ocr_queue # <<>>
    /\ threads = 1

\* C4: intake is never blocked by inference.  Whatever the worker is doing and
\* however long the queue is, the watch loop can take each file of the watch
\* directory, and can stage it and put its job on the queue; so can the
\* recovery pass for each staged file it has still to visit.
StageAndEnqueue(d) ==
    /\ process_file_and_cleanup(d)
    /\ Len(ocr_queue') = Len(ocr_queue) + 1

RecoverAndEnqueue(u) ==
    /\ recover_file(u)
    /\ Len(ocr_queue') = Len(ocr_queue) + 1

C4_IntakeNeverBlocked ==
    /\ \A d \in watch : main_pc = "watch" => ENABLED StageAndEnqueue(d)
    /\ \A u \in staged_pdfs \cap DOMAIN staging :
        main_pc = "recover" => ENABLED RecoverAndEnqueue(u)

\* A job was put on the queue while the worker was in the middle of a job's
\* inference: the queue is longer than it was when the worker took the job.
C4_Witness ==
    /\ inflight # <<>>
    /\ Len(inflight[1].page_texts) < inflight[1].job.b64_images
    /\ Len(ocr_queue) > inflight[1].remaining

\* C5: when the worker ends a job without retro_target_id whose pages have
\* all been processed, the sidecar <uid>.json has been written.
C5_SidecarWritten ==
    [][gpu_finish /\ inflight[1].job.retro_doc_id = 0
       => sidecar_json(inflight[1].job.uid) \in sidecars']_vars

C7_GhostAlwaysDeleted ==
    [][\A u \in Uids :
        recover_file(u) /\ u \in DOMAIN staging /\ archive[u] = "ok"
        => /\ u \notin DOMAIN staging'
           /\ ocr_queue' = ocr_queue
           /\ intake' = intake]_vars

\* C7 as amended: the same, when recovery's checksum lookup returned the
\* archived document.
C7_GhostDeletedOnMatch ==
    [][\A u \in Uids :
        recover_file(u) /\ archive[u] = "ok" /\ rec_last'.duplicate = "ok"
        => /\ u \notin DOMAIN staging'
           /\ ocr_queue' = ocr_queue
           /\ intake' = intake]_vars

C7_Witness ==
    /\ rec_last.outcome = "ghost"
    /\ rec_last.duplicate = "ok"
    /\ rec_last.uid \notin DOMAIN staging

\* C8: a staged file whose checksum matches a zombie record is not unlinked;
\* it is re-rasterized and re-enqueued (or, when rasterization fails, handed to
\* intake) like a file without a match.
C8_ZombieResumed ==
    [][\A u \in Uids :
        recover_file(u) /\ rec_last'.duplicate = "zombie"
        => /\ rec_last'.outcome \in {"enqueued", "raster_error"}
           /\ \/ u \in DOMAIN staging'
              \/ StagedName(u) \in DOMAIN intake']_vars

\* C9: when the recovery pass is over, no file remains staged without a job
\* that is queued or in processing.
HasJob(q, running, u) ==
    \/ \E i \in 1..Len(q) : q[i].uid = u
    \/ \E i \in 1..Len(running) : running[i].job.uid = u

C9_NoneLeftStaged ==
    [][(main_pc \in {"recover_scan", "recover"} /\ main_pc' = "watch")
       => (\A u \in DOMAIN staging' : HasJob(ocr_queue', inflight', u))]_vars

C12_SameKey ==
    [][\A name \in DOMAIN intake :
        paperless_consume(name)
        => sidecar_path(intake[name], name, TRUE)
           = sidecar_json(calculate_md5(intake[name]))]_vars

C14_SidecarOrStaged ==
    [][gpu_finish
       => ~(/\ sidecar_json(inflight[1].job.uid) \in sidecars'
            /\ inflight[1].job.staged_file \in DOMAIN staging')]_vars

\* The worker is done with every job of this run and has left no staged file.
C14_Witness ==
    /\ w_last # "none"
    /\ enq_count >= 1
    /\ last_started = enq_count
    /\ inflight = <<>>
    /\ staging = EmptyDir

\* C15: the queue's count of unfinished tasks equals the number of queued
\* jobs plus the job in processing: task_done is called once for each job the
\* worker took, on every path.
C15_TaskDone ==
    unfinished_tasks = Len(ocr_queue) + Len(inflight)

\* A job has ended in the exception handler while another one is queued.
C15_Witness ==
    /\ w_last = "exception"
    /\ inflight = <<>>
    /\ ocr_queue # <<>>
    /\ unfinished_tasks = Len(ocr_queue)

\* C16: the page loop ends with one text per rendered page, in the order of
\* the calls; the text of a page whose inference call returned nothing is the
\* marker, the text of any other page is what the call returned.
C16_PageTexts ==
    [][gpu_finish
       => LET r == inflight[1]
          IN  /\ Len(r.results) = r.job.b64_images
              /\ Len(r.page_texts) = r.job.b64_images
              /\ \A i \in 1..r.job.b64_images :
                    r.page_texts[i] = IF r.results[i] = "" THEN "[OCR FEHLER]"
                                      ELSE r.results[i]]_vars

\* The first page's call failed and the second page has been processed.
C16_Witness ==
    /\ inflight # <<>>
    /\ inflight[1].job.b64_images = 2
    /\ inflight[1].results = <<"", "text">>
    /\ inflight[1].page_texts = <<"[OCR FEHLER]", "text">>

\* C17: unless the process is killed, every job on the queue is eventually
\* taken by the worker and ended, and every file in the watch directory is
\* eventually taken by the producer - whichever way earlier jobs ended.
JobQueued(s) == \E i \in 1..Len(ocr_queue) : ocr_queue[i].seq = s

JobEnded(s) ==
    /\ last_started >= s
    /\ \A i \in 1..Len(inflight) : inflight[i].job.seq # s

Killed == main_pc = "boot" /\ crashes > 0

C17_PipelineGoesOn ==
    /\ \A s \in 1..NDocs : JobQueued(s) ~> (JobEnded(s) \/ Killed)
    /\ \A d \in Docs : (d \in watch) ~> (d \notin watch \/ Killed)

\* After a job that ended in the exception handler the worker has taken the
\* job queued behind it.
C17_Witness ==
    /\ w_last = "exception"
    /\ inflight # <<>>
    /\ inflight[1].job.seq >= 2
    /\ crashes = 0

\* What every step of the producer leaves as it is (process_file_with implies
\* it): the steps of the other threads and of the environment are told apart
\* by it.  A step that changes nothing satisfies [A]_vars whatever A is, so
\* only the steps that change something are looked at.
ProducerStep ==
    /\ vars' # vars
    /\ main_pc = "watch"
    /\ UNCHANGED <<sidecars, consumed, gpu_busy_flag, worker_vars, main_pc,
                   threads, rec_vars, backend_vars, arrived, unlinked, crashes, client_vars>>

ProducerFails(d, e) ==
    LET chk == binary_duplicate_check(calculate_md5(d), e.chk_raises,
                                      e.lookup_ok, e.metadata_ok)
    IN  \/ ~e.md5_ok
        \/ /\ chk # "duplicate"
           /\ \/ ~e.optimizer_ok
              \/ ~WorkDirBound(chk)
              \/ ~e.raster_ok

RetroJobEnds == gpu_finish /\ inflight[1].job.retro_doc_id # 0

C22_Routing ==
    [][generate_post =>
        LET sent == call'.sent
            primary == sent.host = "host" /\ sent.model = "vision_model"
            fallback == sent.host = "cpu_host" /\ sent.model = "summary_model"
        IN  /\ call.images => primary
            /\ (~call.images /\ ~gpu_busy_flag) => primary
            /\ (~call.images /\ gpu_busy_flag) => fallback]_vars

\* A text-only request of a later attempt is in flight to the fallback backend
\* while the worker holds the flag.
C22_Witness ==
    /\ call.status = "posted"
    /\ call.kind = "generate"
    /\ ~call.images
    /\ call.attempt > 0
    /\ gpu_busy_flag
    /\ call.sent.host = "cpu_host"
    /\ call.sent.model = "summary_model"

\* A connection error or a response with a server-error status.
TransientFailures == ServerErrors \cup {NoResponse}

\* C23: a generate call makes at most 4 attempts; a connection error or a
\* server error on attempt k = 1, 2, 3 is followed by a wait of 5, 10, 15
\* seconds and a retry; a successful response is returned at once; the last
\* failed attempt returns the empty result.
C23_RetrySchedule ==
    [][\A r \in Responses : generate_response(r) =>
        /\ call.attempt < max_attempts
        /\ r = 200 => call'.status = "returned" /\ call'.result = "text"
        /\ (r \in TransientFailures /\ call.attempt + 1 <= Len(delays)) =>
                /\ call'.status = "routing"
                /\ call'.attempt = call.attempt + 1
                /\ call'.waits = Append(call.waits, delays[call.attempt + 1])
        /\ (r \in TransientFailures /\ call.attempt + 1 = max_attempts) =>
                /\ call'.status = "returned"
                /\ call'.result = ""]_vars

\* C24: an embeddings call is retried on a transient failure on the backoff
\* schedule before it gives up and returns the empty result.
C24_EmbeddingRetried ==
    [][\A r \in TransientFailures :
        (embedding_response(r) /\ call.attempt + 1 <= Len(delays)) =>
            /\ call'.status # "returned"
            /\ call'.waits = Append(call.waits, delays[call.attempt + 1])]_vars

\* A request with image input is in flight: one of the worker's page loop or
\* one of the client process.
WorkerVisionInFlight ==
    /\ inflight # <<>>
    /\ ~PageLoopDone(inflight[1].page_texts, inflight[1].job.b64_images)
ClientVisionInFlight ==
    /\ call.status = "posted"
    /\ call.kind = "generate"
    /\ call.images

\* C25: whenever a vision request is in flight, whichever component issued
\* it, the GPU-busy flag is present.
C25_FlagDuringVision ==
    (WorkerVisionInFlight \/ ClientVisionInFlight) => gpu_busy_flag

\* The worker thread runs and blocks in ocr_queue.get(): nothing is queued and
\* no job is in its hands.
WorkerIdle == threads > 0 /\ ocr_queue = <<>> /\ inflight = <<>>

\* C26: whenever the queue is empty and the worker is idle waiting for a job,
\* the GPU-busy flag is absent, also after a job that ended in an exception
\* and after the restart that follows a crash in mid-job.
C26_FlagClearedWhenIdle == WorkerIdle => ~gpu_busy_flag

\* C27: while the worker works through a backlog the GPU-busy flag is not
\* cleared between consecutive jobs, so a text-only request is routed to the
\* fallback backend until the queue has drained; after the job that drains
\* the queue the flag is cleared and a text-only request goes to the primary
\* backend.
C27_FlagThroughBacklog ==
    [][gpu_finish =>
        IF ocr_queue # <<>>
        THEN /\ gpu_busy_flag'
             /\ route(FALSE, gpu_busy_flag').host = "cpu_host"
        ELSE /\ ~gpu_busy_flag'
             /\ route(FALSE, gpu_busy_flag').host = "host"]_vars

\* C28: a job's working directory is released on all exit paths: once the job
\* has reached a terminal outcome (ended by the worker on any path, or failed
\* in the producer or in recovery during rasterization) its working directory
\* no longer exists.
C28_WorkDirReleased ==
    [][/\ gpu_finish => inflight[1].job.work_dir \notin work_dirs'
       /\ ProducerStep => \A d \in watch : \A e \in ProducerEnv :
            (process_file_with(d, e) /\ process_file_single(d, e) # "staged")
            => WatchWorkDir(d) \notin work_dirs'
       /\ ((\E u \in Uids : recover_file(u)) /\ rec_last'.outcome = "raster_error")
            => RecoveryWorkDir(rec_last'.uid) \notin work_dirs']_vars

\* Candidate k of the run survives the safety cascade.
Survives(k) ==
    candidate_outcome(dd.current_content, dd.similar[k]) = "confirmed"

\* C29: in one confirmation run the candidates are evaluated in descending
\* similarity order; the first candidate that survives the safety cascade is
\* declared the duplicate and no candidate after it is evaluated; at most one
\* duplicate is declared, and none when no candidate survives.
C29_FirstMatch ==
    dd.status \in {"loop", "done"} =>
        /\ dd.evaluated = [k \in 1..Len(dd.evaluated) |-> k]
        /\ \A j, k \in 1..Len(dd.evaluated) :
             j < k => dd.similar[j].similarity >= dd.similar[k].similarity
        /\ Len(dd.declared) <= 1
        /\ \A k \in 1..Len(dd.evaluated) :
             Survives(k) => /\ k = Len(dd.evaluated)
                            /\ dd.declared = <<dd.similar[k].id>>
                            /\ dd.status = "done"
                            /\ \A j \in 1..(k - 1) : ~Survives(j)
        /\ (dd.status = "done" /\ dd.declared = <<>>) =>
             \A k \in 1..Len(dd.similar) : ~Survives(k)

\* The second of three candidates was declared the duplicate after the first
\* was rejected; the third, which would survive too, was not evaluated.
C29_Witness ==
    /\ dd.status = "done"
    /\ Len(dd.similar) = 3
    /\ dd.outcomes = <<"rejected", "confirmed">>
    /\ dd.declared = <<dd.similar[2].id>>
    /\ Survives(3)

\* n / d >= hundredths / 100, for d > 0.
AtLeast(n, d, hundredths) == n * 100 >= hundredths * d

Jaccard(a, b, hundredths) ==
    AtLeast(Cardinality(a \cap b), Cardinality(a \cup b), hundredths)

\* Every applicable check of the cascade passes.
AllChecksPass(current, candidate, similarity) ==
    LET T == IF similarity > 98 THEN 50 ELSE 80
        W == (IF current.len < 1500 THEN 90 ELSE 85)
             - (IF similarity > 95 THEN 10 ELSE 0)
    IN  /\ (current.dates # {} /\ candidate.dates # {})
             => Jaccard(current.dates, candidate.dates, T)
        /\ (current.feats # {} /\ candidate.feats # {})
             => Jaccard(current.feats, candidate.feats, T)
        /\ AtLeast(current.len, candidate.len, 80)
        /\ current.len * 100 <= 125 * candidate.len
        /\ Jaccard(current.words, candidate.words, W)

DisjointFeatures(current, candidate) ==
    /\ current.feats # {}
    /\ candidate.feats # {}
    /\ current.feats \cap candidate.feats = {}

\* C30: a candidate with retrievable content is confirmed exactly when every
\* applicable check passes: date Jaccard >= T when both texts have dates,
\* feature Jaccard >= T when both have features (T = 0.5 if similarity > 0.98,
\* else 0.8), length ratio within [0.8, 1.25], word Jaccard >= W (0.90 for a
\* current text under 1500 characters, else 0.85, less 0.10 if similarity >
\* 0.95); a candidate at similarity 0.90 with disjoint non-empty feature sets
\* is rejected.
C30_Cascade ==
    \A k \in 1..Len(dd.outcomes) :
        LET best == dd.similar[k]
        IN  best.fetch = "ok" =>
              /\ dd.outcomes[k] \in {"confirmed", "rejected"}
              /\ dd.outcomes[k] = "confirmed"
                   <=> AllChecksPass(dd.current_content, best.content,
                                     best.similarity)
              /\ (best.similarity = 90
                  /\ DisjointFeatures(dd.current_content, best.content))
                   => dd.outcomes[k] = "rejected"

\* A candidate at similarity 0.90 whose features are disjoint from the current
\* document's was rejected, although no date check applied and the lengths
\* and the words agree.
C30_Witness ==
    /\ dd.outcomes = <<"rejected">>
    /\ dd.similar[1].similarity = 90
    /\ DisjointFeatures(dd.current_content, dd.similar[1].content)
    /\ dd.current_content.dates = {}
    /\ dd.current_content.len = dd.similar[1].content.len
    /\ dd.current_content.words = dd.similar[1].content.words

DateCheckPasses(current, candidate, similarity) ==
    ~ /\ extract_dates(current) # {} /\ extract_dates(candidate) # {}
      /\ Below(calculate_jaccard(extract_dates(current),
                                 extract_dates(candidate)),
               date_threshold(similarity))

FeatCheckPasses(current, candidate, similarity) ==
    ~ /\ extract_features(current) # {} /\ extract_features(candidate) # {}
      /\ Below(calculate_jaccard(extract_features(current),
                                 extract_features(candidate)),
               feat_threshold(similarity))

\* C31: monotonic relaxation: for the texts of a run, a date check or a
\* feature check that passes at one similarity passes at every higher one, a
\* candidate confirmed at its similarity passes both checks at every higher
\* one, and the overlap each check requires above 0.98 is never higher than
\* the overlap it requires at or below 0.98.
C31_MonotonicRelaxation ==
    \A k \in 1..Len(dd.outcomes) :
        LET best == dd.similar[k]
            current == dd.current_content
        IN  best.fetch = "ok" =>
              /\ \A s1, s2 \in Similarities :
                   s1 <= s2 =>
                     /\ DateCheckPasses(current, best.content, s1)
                          => DateCheckPasses(current, best.content, s2)
                     /\ FeatCheckPasses(current, best.content, s1)
                          => FeatCheckPasses(current, best.content, s2)
                     /\ (s1 <= 98 /\ s2 > 98) =>
                          /\ date_threshold(s2) <= date_threshold(s1)
                          /\ feat_threshold(s2) <= feat_threshold(s1)
              /\ dd.outcomes[k] = "confirmed" =>
                   \A s2 \in Similarities :
                     s2 >= best.similarity =>
                       /\ DateCheckPasses(current, best.content, s2)
                       /\ FeatCheckPasses(current, best.content, s2)

\* A candidate at similarity 0.99 was confirmed with a date overlap of one
\* half, which passes the date check above 0.98 and fails it at 0.98.
C31_Witness ==
    /\ dd.outcomes = <<"confirmed">>
    /\ dd.similar[1].similarity = 99
    /\ dd.current_content.dates # {}
    /\ dd.similar[1].content.dates # {}
    /\ ~Jaccard(dd.current_content.dates, dd.similar[1].content.dates, 80)
    /\ ~DateCheckPasses(dd.current_content, dd.similar[1].content, 98)
    /\ DateCheckPasses(dd.current_content, dd.similar[1].content, 99)

\* The evaluation of candidate k met an error: get_document returned None
\* after a failed request, or an exception was raised inside the try block.
CandidateFailed(k) == dd.similar[k].fetch \in {"none", "error"}

\* C32: an error during one candidate's evaluation skips only that candidate:
\* the failing candidate is not declared, the run goes on to the next
\* candidate, and the first later candidate that survives the cascade is
\* declared the duplicate.
C32_ErrorSkipsCandidate ==
    \A k \in 1..Len(dd.outcomes) :
        CandidateFailed(k) =>
          /\ dd.outcomes[k] \in {"stale", "error"}
          /\ \A n \in 1..Len(dd.declared) : dd.declared[n] # dd.similar[k].id
          /\ k < Len(dd.similar) => (dd.status = "loop" \/ Len(dd.outcomes) > k)
          /\ dd.status = "done" =>
               \A j \in (k + 1)..Len(dd.similar) :
                   (Survives(j) /\ \A i \in 1..(j - 1) : ~Survives(i))
                     => /\ dd.declared = <<dd.similar[j].id>>
                        /\ dd.outcomes[j] = "confirmed"

\* The request for the first candidate raised, the one for the second
\* returned nothing, and the third candidate was declared the duplicate.
C32_Witness ==
    /\ dd.status = "done"
    /\ dd.outcomes = <<"error", "stale", "confirmed">>
    /\ CandidateFailed(1)
    /\ CandidateFailed(2)
    /\ dd.declared = <<dd.similar[3].id>>

\* The two texts are the same document but for one date token: equal length,
\* one date on each side without its counterpart, and at most the one feature
\* and the one word that the token carries differ.
OneDateTokenDiffers(current, candidate) ==
    /\ current.len = candidate.len
    /\ Cardinality(current.dates \ candidate.dates) = 1
    /\ Cardinality(candidate.dates \ current.dates) = 1
    /\ Cardinality(current.feats \ candidate.feats) <= 1
    /\ Cardinality(candidate.feats \ current.feats) <= 1
    /\ Cardinality(current.words \ candidate.words) <= 1
    /\ Cardinality(candidate.words \ current.words) <= 1

\* C33: two documents with identical text, dates and amounts at similarity
\* 0.99 are confirmed as duplicates when exactly one date token of one differs
\* from its counterpart in the other: the date Jaccard reaches the lowered
\* threshold 0.5 and the date check passes.
C33_OneDateTokenTolerated ==
    \A k \in 1..Len(dd.outcomes) :
        LET best == dd.similar[k]
        IN  (/\ best.fetch = "ok"
             /\ best.similarity = 99
             /\ OneDateTokenDiffers(dd.current_content, best.content))
            => /\ Jaccard(dd.current_content.dates, best.content.dates, 50)
               /\ DateCheckPasses(dd.current_content, best.content, 99)
               /\ dd.outcomes[k] = "confirmed"

\* A retro job for document u is queued or in processing.
RetroJobLive(u) ==
    \/ \E i \in 1..Len(ocr_queue) : ocr_queue[i].retro_doc_id = u
    \/ \E i \in 1..Len(inflight) : inflight[i].job.retro_doc_id = u

\* The worker has ended the retro job for u (the last iteration it finished
\* was a retro job and none is left) and the poller is past its tag swap.
RetroRequestSettled(u) ==
    /\ w_last \in {"retro_done", "retro_error"}
    /\ ~RetroJobLive(u)
    /\ ~(poller.pc = "swap" /\ poller.doc = u)

C36_NoIntakeOverwrite ==
    [][\A p \in DirDocs(intake) :
          p \in DirDocs(intake') \/ p \in picked_up']_vars

\* The jobs with uid u that are queued or in processing.
LiveJobs(u) ==
    Cardinality({i \in 1..Len(ocr_queue) : ocr_queue[i].uid = u})
    + Cardinality({i \in 1..Len(inflight) : inflight[i].job.uid = u})

\* C37: the uid is a job's identity: at any time at most one job with a given
\* uid is queued or in processing, so that the staged file <uid>.pdf is
\* referenced by at most one live job.
C37_OneLiveJobPerUid ==
    \A u \in Uids : LiveJobs(u) <= 1

\* The recovery pass of the current run is under way (threads are started).
Recovering == main_pc \in {"recover_scan", "recover"}

\* A job that recovery put on the queue is queued or in processing for uid u.
RecoveredJobLive(u) ==
    \/ \E i \in 1..Len(ocr_queue) :
          ocr_queue[i].uid = u /\ ocr_queue[i].original_filename = RecoveredName(u)
    \/ \E i \in 1..Len(inflight) :
          inflight[i].job.uid = u /\ inflight[i].job.original_filename = RecoveredName(u)

\* A job that the producer or the poller put on the queue is live for uid u.
OtherJobLive(u) ==
    \/ \E i \in 1..Len(ocr_queue) :
          ocr_queue[i].uid = u /\ ocr_queue[i].original_filename # RecoveredName(u)
    \/ \E i \in 1..Len(inflight) :
          inflight[i].job.uid = u /\ inflight[i].job.original_filename # RecoveredName(u)

\* While recovery is under way no staged file is created or replaced, so the
\* files it visits were all there when the run started.
C38_VisitsPreviousRunOnly ==
    [][Recovering =>
          \A u \in DOMAIN staging' : u \in DOMAIN staging /\ staging'[u] = staging[u]]_vars

\* C38: recovery acts only on staged files left behind by a previous run: it
\* never deletes, re-enqueues or moves to intake a staged file that the
\* current run created, and no staged file is enqueued by both recovery and
\* another producer.
C38_RecoveryExclusive ==
    /\ C38_VisitsPreviousRunOnly
    /\ [](\A u \in Uids : ~(RecoveredJobLive(u) /\ OtherJobLive(u)))

\* C39: a document tagged AI-OCR is enqueued for retroactive processing
\* exactly once per request: a poll that finds the request tag on an archived
\* document with no retro job live, and whose download succeeds, puts a job
\* for it, and no poll puts a second job while one is live.
C39_EnqueuedOncePerRequest ==
    [][\A u \in Uids, pages \in 1..MaxPages :
          ai_retagger_with(TRUE, u, TRUE, pages) /\ "AI-OCR" \in tags[u]
          /\ archive[u] # "none"
          => /\ ~RetroJobLive(u) =>
                  \E i \in 1..Len(ocr_queue') : ocr_queue'[i].retro_doc_id = u
             /\ RetroJobLive(u) => ocr_queue' = ocr_queue]_vars

\* Document doc_id carries a note of the given kind naming original_id.
HasDuplicateNote(doc_id, original_id, kind) ==
    \E i \in 1..Len(notes[doc_id]) :
        /\ notes[doc_id][i].kind = kind
        /\ notes[doc_id][i].original_id = original_id

\* This step is handle_duplicate marking doc_id as a duplicate of original_id.
Marks(doc_id, original_id) ==
    /\ dd.status = "loop"
    /\ dd.document_id = doc_id
    /\ Len(dd'.declared) > Len(dd.declared)
    /\ dd'.declared[Len(dd'.declared)] = original_id

\* C34: annotating a confirmed duplicate is idempotent: when the "add a note
\* + ensure a tag" step is performed again for a pair (new document, original)
\* that already carries the note and the tag, the new document keeps the same
\* notes and the same tags.
C34_AnnotateIdempotent ==
    [][\A doc_id \in DocIds, original_id \in DocIds :
          /\ Marks(doc_id, original_id)
             /\ HasDuplicateNote(doc_id, original_id, "possible")
             /\ "Duplikat" \in tags[doc_id]
             => notes' = notes /\ tags' = tags
          /\ dd.status \in {"none", "done"}
             /\ HasDuplicateNote(doc_id, original_id, "hint")
             /\ notes'[doc_id] # notes[doc_id]
             => notes'[doc_id][Len(notes'[doc_id])] # HintNote(original_id)]_vars

\* C40, the hinted half as a step: main with a true hint for original_id
\* leaves the detector unstarted and, its request succeeding, appends the
\* note naming original_id and nothing else.
HintedStep(doc_id, original_id, enabled, note_ok, results) ==
    duplicate_detection(doc_id, "true", original_id, enabled, note_ok, results)
    => /\ dd' = NoRun
       /\ tags' = tags
       /\ notes' = IF note_ok
                   THEN [notes EXCEPT ![doc_id] = Append(@, HintNote(original_id))]
                   ELSE notes

\* The other half: with the hint absent or false the detector is started for
\* doc_id exactly when the module is enabled, and no note is written.
UnhintedStep(doc_id, hint, original_id, enabled, note_ok, results) ==
    duplicate_detection(doc_id, hint, original_id, enabled, note_ok, results)
    => /\ notes' = notes
       /\ tags' = tags
       /\ enabled => dd'.status = "start" /\ dd'.document_id = doc_id
       /\ ~enabled => dd' = NoRun

\* C40: when the sidecar carries a duplicate hint with is_duplicate true, the
\* script adds a duplicate note naming the hinted original and does not run
\* the duplicate detector for that document, so the hinted candidate is
\* annotated without passing the safety cascade; when the hint is absent or
\* false the detector runs if enabled.
C40_HintBypassesDetector ==
    [][\A doc_id \in {1, 3}, original_id \in {2}, enabled \in BOOLEAN,
          note_ok \in BOOLEAN, results \in HintResults :
          /\ HintedStep(doc_id, original_id, enabled, note_ok, results)
          /\ \A hint \in {"absent", "false"} :
                UnhintedStep(doc_id, hint, original_id, enabled, note_ok, results)]_vars

\* A hint note lies on a document for which no detector run has marked
\* anything, and a detector run has been started for the other document.
C40_Witness ==
    /\ HasDuplicateNote(1, 2, "hint")
    /\ ~HasDuplicateNote(1, 2, "possible")
    /\ "Duplikat" \notin tags[1]
    /\ dd.status = "start"
    /\ dd.document_id = 3

====
